---------------------------- MODULE Spec2Model ----------------------------
(***************************************************************************)
(* opendex-launcher: the version-resolution-and-materialization core.      *)
(*                                                                         *)
(* Each process is one invocation of main(): Launcher.Start resolves the   *)
(* branch to a commit, checks the per-commit cache directory, downloads    *)
(* and unzips the launcher archive on a miss, sets the execute bit and     *)
(* hands off to the binary.  The processes share the versions directory    *)
(* (the cache); they may run one after the other or interleaved.  Every    *)
(* blocking call (HTTP request, file-system call) is one step, so that     *)
(* the states between them are visible to the other process.               *)
(***************************************************************************)
EXTENDS Integers, Sequences, FiniteSets, TLC

VARIABLES
    goos,      \* runtime.GOOS of the machine
    fs,        \* the file system under launcherVersionsDir: path -> node
    pc,        \* each process's position in main/Start
    branch,    \* t.branch (the BRANCH environment variable)
    config,    \* t.config: NoConfig (nil) or a record with the access token
    commit,    \* the commit returned by GetHeadCommit
    url,       \* the download url computed by getDownloadUrl
    run,       \* the workflow run getLastRunOfBranch returned
    resp,      \* the HTTP response the process is handling
    zi,        \* unzip: index of the archive entry being extracted
    zsrc,      \* unzip: the archive zip.OpenReader has read
    child,     \* the exit status of the binary the process ran, NoExit before
    trace,     \* what the running process has done so far, in order
    outcome,   \* how the run ended, None before
    exit,      \* the exit status of the process, NoExit while it runs
    sent       \* the headers of the request the process sent last

vars == <<goos, fs, pc, branch, config, commit, url, run, resp, zi, zsrc, child, trace, outcome, exit, sent>>

Procs == {"p1", "p2"}

---------------------------------------------------------------------------
(* Bounds of the model *)

\* longest workflow-run list an API answer holds
MaxRuns == 2
\* longest artifact list an API answer holds
MaxArtifacts == 2

---------------------------------------------------------------------------
(* Values *)

None == "none"
\* t.config = nil
NoConfig == [nil |-> TRUE]
NoExit == -1
NoResp == [kind |-> "none"]
NoRequest == [Accept |-> None, Authorization |-> None]
NoRun == [Id |-> 0, CreatedAt |-> 0, HeadSha |-> None]
NoUrl == [kind |-> "none"]
\* the url ""
EmptyUrl == [kind |-> "empty"]

GOOSes == {"linux", "darwin", "windows", "freebsd"}

\* BRANCH values, each with its spelling (ReleaseRef reads the characters)
BranchChars ==
    [b \in {"master", "21.06.03-rc", "21.6.03"} |->
        CASE b = "master" -> <<"m", "a", "s", "t", "e", "r">>
          [] b = "21.06.03-rc" ->
                <<"2", "1", ".", "0", "6", ".", "0", "3", "-", "r", "c">>
          [] b = "21.6.03" -> <<"2", "1", ".", "6", ".", "0", "3">>]

Branches == DOMAIN BranchChars

\* commit hashes the commits API may answer with
Commits == {"c1", "c2"}

\* the access tokens a config file may hold
Tokens == {"tok"}

Digits == {"0", "1", "2", "3", "4", "5", "6", "7", "8", "9"}

\* the pattern without its ".*": a tag with a suffix does not match
ReleaseRefNoSuffix(s) ==
    /\ Len(s) = 8
    /\ \A i \in {1, 2, 4, 5, 7, 8} : s[i] \in Digits
    /\ s[3] = "." /\ s[6] = "."

\* ReleaseRef = ^\d{2}\.\d{2}\.\d{2}.*$ : '.' matches no newline and '$' only
\* the end of the text
ReleaseRefMatch(s) ==
    /\ Len(s) >= 8
    /\ \A i \in {1, 2, 4, 5, 7, 8} : s[i] \in Digits
    /\ s[3] = "." /\ s[6] = "."
    /\ \A i \in 9..Len(s) : s[i] # "\n"

ReleaseRef(b) == ReleaseRefMatch(BranchChars[b])

---------------------------------------------------------------------------
(* File modes *)

\* the mode os.Chmod gives the launcher, and os.Mkdir the commit directory
Mode0755 == 493
\* os.ModePerm, the mode unzip creates directories with
ModePerm == 511

\* the bit of UserWritable, taken for the execute bit
WrongBit == 2 ^ 7

UserExecutable == 2 ^ 6

RECURSIVE BitAnd(_, _)
BitAnd(a, b) ==
    IF a = 0 \/ b = 0 THEN 0
    ELSE (a % 2) * (b % 2) + 2 * BitAnd(a \div 2, b \div 2)

---------------------------------------------------------------------------
(* Paths: sequences of components, relative to launcherVersionsDir.  A     *)
(* path that starts with ".." lies outside it, one that starts with "/" is *)
(* absolute.                                                               *)

RECURSIVE Clean(_, _)
\* filepath.Join/Clean: acc is the cleaned prefix, rest what is left
Clean(acc, rest) ==
    IF rest = <<>> THEN acc
    ELSE LET c == Head(rest) IN
         IF c = "/" THEN Clean(<<"/">>, Tail(rest))
         ELSE IF c = "." THEN Clean(acc, Tail(rest))
         ELSE IF c = ".."
              THEN IF acc = <<"/">> THEN Clean(acc, Tail(rest))
                   ELSE IF acc = <<>> \/ acc[Len(acc)] = ".."
                        THEN Clean(Append(acc, ".."), Tail(rest))
                        ELSE Clean(SubSeq(acc, 1, Len(acc) - 1), Tail(rest))
              ELSE Clean(Append(acc, c), Tail(rest))

Join(dir, name) == Clean(dir, name)

Dir(path) == IF path = <<>> THEN <<>> ELSE SubSeq(path, 1, Len(path) - 1)

Prefixes(path) == {SubSeq(path, 1, n) : n \in 1..Len(path)}

\* directories that exist before any run: the versions directory, what is
\* above it, and the root
IsImplicitDir(path) ==
    \/ path = <<>>
    \/ path = <<"/">>
    \/ path # <<>> /\ \A i \in 1..Len(path) : path[i] = ".."

\* the name with the extension on every platform
LauncherNameExe(os) == "launcher.exe"

LauncherName(os) == IF os = "windows" THEN "launcher.exe" ELSE "launcher"

CommitDir(c) == <<c>>

\* the directory of the commit, taken for the path of the binary
CommitDirAsLauncher(os, c) == CommitDir(c)

LauncherPath(os, c) == Join(CommitDir(c), <<LauncherName(os)>>)

ZipPath(c) == Join(CommitDir(c), <<"launcher.zip">>)

---------------------------------------------------------------------------
(* The file system *)

\* A node: a directory, or a file with its mode, the archive its content
\* comes from (src), whether the content is completely written (done), and
\* the process that created or truncated it last (by).
DirNode(m) == [kind |-> "dir", mode |-> m, src |-> 0, done |-> TRUE, by |-> None]

FileNode(m, a, d, p) == [kind |-> "file", mode |-> m, src |-> a, done |-> d, by |-> p]

Present(f, path) == IsImplicitDir(path) \/ path \in DOMAIN f

IsFileAt(f, path) == path \in DOMAIN f /\ f[path].kind = "file"

IsDirAt(f, path) ==
    IsImplicitDir(path) \/ (path \in DOMAIN f /\ f[path].kind = "dir")

\* os.Stat: "ok", "notexist" (os.IsNotExist), or "err" (a component of the
\* path is a file: ENOTDIR is not IsNotExist)
Stat(f, path) ==
    IF \E q \in Prefixes(Dir(path)) : IsFileAt(f, q) THEN "err"
    ELSE IF Present(f, path) THEN "ok"
    ELSE "notexist"

\* what a stat call can return: the answer of the file system, or an I/O error
StatResults(f, path) == {Stat(f, path), "err"}

ModeAt(f, path) == IF path \in DOMAIN f THEN f[path].mode ELSE Mode0755

\* utils.IsExecutable, given a path os.Stat succeeded on
IsExecutable(f, path) == BitAnd(ModeAt(f, path), UserExecutable) # 0

\* os.MkdirAll
MkdirAllOk(f, path) == \A q \in Prefixes(path) : ~IsFileAt(f, q)

MkdirAll(f, path, m) ==
    LET new == {q \in Prefixes(path) : ~Present(f, q)}
    IN  [q \in DOMAIN f \cup new |-> IF q \in new THEN DirNode(m) ELSE f[q]]

\* os.Mkdir
MkdirOk(f, path) == ~Present(f, path) /\ IsDirAt(f, Dir(path))

Mkdir(f, path, m) ==
    [q \in DOMAIN f \cup {path} |-> IF q = path THEN DirNode(m) ELSE f[q]]

\* os.OpenFile(path, O_WRONLY|O_CREATE|O_TRUNC, m) and os.Create: the file is
\* created with mode m, or truncated, keeping the mode it has
OpenTruncOk(f, path) == IsDirAt(f, Dir(path)) /\ ~IsDirAt(f, path)

OpenTrunc(f, path, m, a, p) ==
    LET node == FileNode(IF path \in DOMAIN f THEN f[path].mode ELSE m, a, FALSE, p)
    IN  [q \in DOMAIN f \cup {path} |-> IF q = path THEN node ELSE f[q]]

\* io.Copy into the file p opened ran to its end
WriteDone(f, path, ok) == [f EXCEPT ![path].done = ok]

\* os.Chmod
Chmod(f, path, m) ==
    IF path \in DOMAIN f THEN [f EXCEPT ![path].mode = m] ELSE f

---------------------------------------------------------------------------
(* The remote side *)

\* The archives a download may deliver: sequences of zip entries
Entry(name, isDir, m) == [name |-> name, isDir |-> isDir, mode |-> m]

Archives ==
    << \* a unix build: the binary, then a data file
       << Entry(<<"launcher">>, FALSE, 493),
          Entry(<<"lib", "data">>, FALSE, 420) >>,
       \* a unix build with a directory entry, and the binary recorded
       \* without the execute bit
       << Entry(<<"lib">>, TRUE, 493),
          Entry(<<"launcher">>, FALSE, 420) >>,
       \* a windows build
       << Entry(<<"launcher.exe">>, FALSE, 420) >>,
       \* an archive without the binary, with an entry that climbs out
       << Entry(<<"..", "escape">>, FALSE, 420) >> >>

ArchiveIds == DOMAIN Archives

\* the artifact names of a build run
PlatformKeys == {"linux-amd64", "darwin-amd64", "windows-amd64"}

RECURSIVE SeqsUpTo(_, _)
SeqsUpTo(S, n) ==
    IF n = 0 THEN {<<>>}
    ELSE LET shorter == SeqsUpTo(S, n - 1)
         IN  shorter \cup {Append(s, x) : s \in shorter, x \in S}

\* WorkflowRun: the run's id, created_at and head_sha
\* (ids are given in the order of creation)
WorkflowRuns ==
    {[Id |-> i, CreatedAt |-> i, HeadSha |-> c] : i \in 1..MaxRuns, c \in Commits}

\* the workflow_runs arrays an answer may hold: runs with distinct ids
WorkflowRunLists ==
    {l \in SeqsUpTo(WorkflowRuns, MaxRuns) :
        \A i, j \in 1..Len(l) : i # j => l[i].Id # l[j].Id}

\* Artifact: name and archive_download_url; each artifact of a run has a
\* url of its own
UrlOf(i) == [kind |-> "artifact", n |-> i]

ArtifactLists ==
    {[i \in 1..Len(names) |-> [Name |-> names[i], ArchiveDownloadUrl |-> UrlOf(i)]] :
        names \in SeqsUpTo(PlatformKeys, MaxArtifacts)}

\* what http.Client.Do and the decoding of the answer can give
NetErr == [kind |-> "neterr"]
\* a non-200 answer whose JSON body has a "message"
HttpErr == [kind |-> "httperr"]
\* a non-200 answer whose JSON body has no string "message"
HttpErrNoMessage == [kind |-> "httperr_nomsg"]
\* a 200 answer whose body is not the JSON expected
BadJson == [kind |-> "badjson"]
Ok(body) == [kind |-> "ok", body |-> body]

Failures == {NetErr, HttpErr, HttpErrNoMessage, BadJson}

CommitAnswers == Failures \cup {Ok(c) : c \in Commits \cup {None}}

RunsAnswers == Failures \cup {Ok(l) : l \in WorkflowRunLists}

ArtifactsAnswers == Failures \cup {Ok(l) : l \in ArtifactLists}

\* the download host answers any url that names a host with an archive or
\* a failure; a request for the empty url never leaves the client
DownloadAnswers(u) ==
    IF u = EmptyUrl THEN {NetErr}
    ELSE {NetErr, HttpErr} \cup {Ok(a) : a \in ArchiveIds}

\* releases/download/<branch>/launcher-<GOOS>-<GOARCH>.zip
ReleaseUrl(b, os) == [kind |-> "release", tag |-> b, os |-> os]

---------------------------------------------------------------------------
(* The state after construction *)

Init ==
    /\ goos \in GOOSes
    /\ fs = <<>>
    /\ pc = [p \in Procs |-> "start"]
    /\ branch = [p \in Procs |-> None]
    /\ config = [p \in Procs |-> NoConfig]
    /\ commit = [p \in Procs |-> None]
    /\ url = [p \in Procs |-> NoUrl]
    /\ run = [p \in Procs |-> NoRun]
    /\ resp = [p \in Procs |-> NoResp]
    /\ zi = [p \in Procs |-> 0]
    /\ zsrc = [p \in Procs |-> 0]
    /\ child = [p \in Procs |-> NoExit]
    /\ trace = [p \in Procs |-> <<>>]
    /\ outcome = [p \in Procs |-> None]
    /\ exit = [p \in Procs |-> NoExit]
    /\ sent = [p \in Procs |-> NoRequest]

---------------------------------------------------------------------------
(* Steps of a process *)

Ended(p) == pc[p] \in {"exited", "crashed"}

\* the launcher is run again once the run before it has ended; a run that
\* has started goes on whatever the other does
Turn(p) == p = "p1" \/ Ended("p1") \/ pc[p] # "start"

\* process p is at position l of Start, and it is its turn
At(p, l) == pc[p] = l /\ Turn(p)

\* the process goes on to position l, having done ev
Goto(p, l, ev) ==
    /\ pc' = [pc EXCEPT ![p] = l]
    /\ trace' = [trace EXCEPT ![p] = Append(@, ev)]

\* the process goes on to position l
Stay(p, l) ==
    /\ pc' = [pc EXCEPT ![p] = l]
    /\ trace' = trace

\* Start returns an error, naming the stage that failed
ReturnErr(p, ev) == Goto(p, "returnedErr", ev)

\* a panic unwinds Start and main
Panic(p, ev) == Goto(p, "panicked", ev)

\* getHomeDir
SupportedPlatform(os) == os \in {"linux", "darwin", "windows"}

\* Start, ensureDirs: the home, launcher, versions and network directories
EnsureDirs(p) ==
    /\ At(p, "start")
    /\ \/ /\ SupportedPlatform(goos)
          /\ Stay(p, "parseConfig")
       \/ ReturnErr(p, "err_dirs")
       \/ Panic(p, "panic_homedir")
    /\ UNCHANGED <<goos, fs, branch, config, commit, url, run, resp, zi, zsrc, child, outcome, exit, sent>>

\* NewGithubClient(t.config.GitHub.AccessToken): t.config is dereferenced
ConfigDeref(c) == c # NoConfig

\* Start, parseConfig to getBranch
ParseConfig(p) ==
    /\ At(p, "parseConfig")
    /\ \/ \* no config file: t.config stays nil
          /\ config' = [config EXCEPT ![p] = NoConfig]
          /\ ~ConfigDeref(NoConfig)
          /\ Panic(p, "panic_config")
          /\ branch' = branch
       \/ \* the config file is read and parsed
          \E tok \in Tokens, b \in Branches :
            /\ config' = [config EXCEPT ![p] = [AccessToken |-> tok]]
            /\ ConfigDeref(config'[p])
            /\ branch' = [branch EXCEPT ![p] = b]
            /\ Stay(p, "resolve")
       \/ \* the config file cannot be stat'ed, opened or parsed
          /\ ReturnErr(p, "err_config")
          /\ UNCHANGED <<config, branch>>
    /\ UNCHANGED <<goos, fs, commit, url, run, resp, zi, zsrc, child, outcome, exit, sent>>

\* doGet: req.Header.Add("Accept", ...), and no other header
DoGetHeader == [Accept |-> "application/vnd.github.v3+json", Authorization |-> None]

\* downloadFile: req.Header.Add("Authorization", "token "+t.AccessToken)
DownloadFileHeader(c) == [Accept |-> None, Authorization |-> "token " \o c.AccessToken]

\* a request with headers h is sent and the answer arrives
Do(p, h, answers, l, ev) ==
    /\ \E a \in answers : resp' = [resp EXCEPT ![p] = a]
    /\ sent' = [sent EXCEPT ![p] = h]
    /\ Goto(p, l, ev)

\* doGet: the request is sent and the answer arrives
DoGet(p, answers, l, ev) == Do(p, DoGetHeader, answers, l, ev)

\* getResponseError panics on a non-200 answer without a message
DoGetPanics(r) == r = HttpErrNoMessage

\* doGet returns an error for a transport failure and for a non-200 answer
DoGetFails(r) == r \in {NetErr, HttpErr}

\* GetHeadCommit, the request
GetHeadCommitReq(p) ==
    /\ At(p, "resolve")
    /\ DoGet(p, CommitAnswers, "resolved", "req_commit")
    /\ UNCHANGED <<goos, fs, branch, config, commit, url, run, zi, zsrc, child, outcome, exit>>

\* GetHeadCommit, the answer: result["sha"].(string)
GetHeadCommitResp(p) ==
    /\ At(p, "resolved")
    /\ IF DoGetPanics(resp[p]) \/ resp[p] = Ok(None)
       THEN Panic(p, "panic_resolve") /\ UNCHANGED <<commit, resp>>
       ELSE IF DoGetFails(resp[p]) \/ resp[p] = BadJson
       THEN ReturnErr(p, "err_resolve") /\ UNCHANGED <<commit, resp>>
       ELSE /\ commit' = [commit EXCEPT ![p] = resp[p].body]
            /\ resp' = [resp EXCEPT ![p] = NoResp]
            /\ Stay(p, "checkCache")
    /\ UNCHANGED <<goos, fs, branch, config, url, run, zi, zsrc, child, outcome, exit, sent>>

\* a FileExists that reports every path as missing
FileExistsNever(st) == FALSE

\* utils.FileExists, of the answer of os.Stat
FileExists(st) == st = "ok"

\* Start: utils.FileExists(launcher)
CheckCache(p) ==
    /\ At(p, "checkCache")
    /\ \E st \in StatResults(fs, LauncherPath(goos, commit[p])) :
         IF st = "err" THEN ReturnErr(p, "err_stat")
         ELSE IF FileExists(st) THEN Goto(p, "verify", "hit")
         ELSE Goto(p, "getDownloadUrl", "miss")
    /\ UNCHANGED <<goos, fs, branch, config, commit, url, run, resp, zi, zsrc, child, outcome, exit, sent>>

\* getDownloadUrl: the release url for a tag, else getLastRunOfBranch's request
GetDownloadUrl(p) ==
    /\ At(p, "getDownloadUrl")
    /\ IF ReleaseRef(branch[p])
       THEN /\ url' = [url EXCEPT ![p] = ReleaseUrl(branch[p], goos)]
            /\ Stay(p, "ensureCommitDir")
            /\ UNCHANGED <<resp, sent>>
       ELSE /\ DoGet(p, RunsAnswers, "lastRun", "req_runs")
            /\ url' = url
    /\ UNCHANGED <<goos, fs, branch, config, commit, run, zi, zsrc, child, outcome, exit>>

\* the run listed last, taken for the latest
LastListed(runs) == runs[Len(runs)]

\* getLastRunOfBranch picks result.WorkflowRuns[0]
LastRun(runs) == runs[1]

\* getLastRunOfBranch: an answer that does not unmarshal leaves result empty
RunsOf(r) == IF r.kind = "ok" THEN r.body ELSE <<>>

\* getLastRunOfBranch without the comparison of HeadSha and commit
LastRunOfBranchNoGuard(r, c) ==
    IF DoGetFails(r) THEN [err |-> "doGet", run |-> NoRun]
    ELSE IF Len(RunsOf(r)) = 0 THEN [err |-> "ErrNotFound", run |-> NoRun]
    ELSE [err |-> None, run |-> LastRun(RunsOf(r))]

\* getLastRunOfBranch, of the answer doGet returned and the commit
LastRunOfBranch(r, c) ==
    IF DoGetFails(r) THEN [err |-> "doGet", run |-> NoRun]
    ELSE IF Len(RunsOf(r)) = 0 THEN [err |-> "ErrNotFound", run |-> NoRun]
    ELSE IF LastRun(RunsOf(r)).HeadSha # c THEN [err |-> "ErrNotFound", run |-> NoRun]
    ELSE [err |-> None, run |-> LastRun(RunsOf(r))]

\* getLastRunOfBranch, the answer, and getDownloadUrl's handling of its error
GetLastRunOfBranch(p) ==
    /\ At(p, "lastRun")
    /\ IF DoGetPanics(resp[p])
       THEN Panic(p, "panic_runs") /\ UNCHANGED <<run, resp>>
       ELSE LET last == LastRunOfBranch(resp[p], commit[p]) IN
            IF last.err = "ErrNotFound"
            THEN ReturnErr(p, "err_no_build") /\ UNCHANGED <<run, resp>>
            ELSE IF last.err # None
            THEN ReturnErr(p, "err_runs") /\ UNCHANGED <<run, resp>>
            ELSE /\ run' = [run EXCEPT ![p] = last.run]
                 /\ resp' = resp
                 /\ Stay(p, "workflowUrl")
    /\ UNCHANGED <<goos, fs, branch, config, commit, url, zi, zsrc, child, outcome, exit, sent>>

\* getWorkflowDownloadUrl, the request for the artifacts of run.Id
GetWorkflowDownloadUrlReq(p) ==
    /\ At(p, "workflowUrl")
    /\ DoGet(p, ArtifactsAnswers, "workflowUrlAnswer", "req_artifacts")
    /\ UNCHANGED <<goos, fs, branch, config, commit, url, run, zi, zsrc, child, outcome, exit>>

\* the artifact name looked for: fmt.Sprintf("%s-amd64", runtime.GOOS)
ArtifactName(os) ==
    CASE os = "linux" -> "linux-amd64"
      [] os = "windows" -> "windows-amd64"
      [] os = "darwin" -> "darwin-amd64"
      [] OTHER -> "other-amd64"

ArtifactsOf(r) == IF r.kind = "ok" THEN r.body ELSE <<>>

\* getWorkflowDownloadUrl's loop: the first artifact of that name
RECURSIVE FindArtifact(_, _)
FindArtifact(arts, name) ==
    IF arts = <<>> THEN [err |-> "ErrNotFound", url |-> EmptyUrl]
    ELSE IF Head(arts).Name = name
         THEN [err |-> None, url |-> Head(arts).ArchiveDownloadUrl]
         ELSE FindArtifact(Tail(arts), name)

\* getWorkflowDownloadUrl, of the answer doGet returned
WorkflowDownloadUrl(r, os) ==
    IF DoGetFails(r) THEN [err |-> "doGet", url |-> EmptyUrl]
    ELSE FindArtifact(ArtifactsOf(r), ArtifactName(os))

\* getDownloadUrl, after getWorkflowDownloadUrl: on an error it returns "", nil
DownloadUrlResult(found) ==
    IF found.err # None THEN [err |-> None, url |-> EmptyUrl]
    ELSE [err |-> None, url |-> found.url]

\* getWorkflowDownloadUrl, the answer, and the return of getDownloadUrl
GetWorkflowDownloadUrlResp(p) ==
    /\ At(p, "workflowUrlAnswer")
    /\ IF DoGetPanics(resp[p])
       THEN Panic(p, "panic_artifacts") /\ UNCHANGED <<url, run, resp>>
       ELSE LET found == WorkflowDownloadUrl(resp[p], goos)
                res == DownloadUrlResult(found)
            IN  IF res.err # None
                THEN ReturnErr(p, "err_artifacts") /\ UNCHANGED <<url, run, resp>>
                ELSE /\ url' = [url EXCEPT ![p] = res.url]
                     /\ run' = [run EXCEPT ![p] = NoRun]
                     /\ resp' = [resp EXCEPT ![p] = NoResp]
                     /\ IF found.err # None
                        THEN Goto(p, "ensureCommitDir", "artifacts_failed")
                        ELSE Stay(p, "ensureCommitDir")
    /\ UNCHANGED <<goos, fs, branch, config, commit, zi, zsrc, child, outcome, exit, sent>>

\* ensureCommitDir: utils.FileExists(commitDir)
EnsureCommitDirStat(p) ==
    /\ At(p, "ensureCommitDir")
    /\ \E st \in StatResults(fs, CommitDir(commit[p])) :
         IF st = "err" THEN ReturnErr(p, "err_commitdir")
         ELSE IF FileExists(st) THEN Stay(p, "downloadLauncher")
         ELSE Stay(p, "mkdirCommitDir")
    /\ UNCHANGED <<goos, fs, branch, config, commit, url, run, resp, zi, zsrc, child, outcome, exit, sent>>

\* ensureCommitDir: os.Mkdir(commitDir, 0755)
EnsureCommitDirMkdir(p) ==
    /\ At(p, "mkdirCommitDir")
    /\ \/ /\ MkdirOk(fs, CommitDir(commit[p]))
          /\ fs' = Mkdir(fs, CommitDir(commit[p]), Mode0755)
          /\ Goto(p, "downloadLauncher", "mkdir")
       \/ /\ ReturnErr(p, "err_commitdir")
          /\ fs' = fs
    /\ UNCHANGED <<goos, branch, config, commit, url, run, resp, zi, zsrc, child, outcome, exit, sent>>

\* downloadLauncher: os.Getwd, os.Chdir(commitDir), then downloadFile's request
DownloadFileReq(p) ==
    /\ At(p, "downloadLauncher")
    /\ \/ /\ IsDirAt(fs, CommitDir(commit[p]))
          /\ Do(p, DownloadFileHeader(config[p]), DownloadAnswers(url[p]),
                "downloadAnswer", "req_download")
       \/ /\ ReturnErr(p, "err_chdir")
          /\ UNCHANGED <<resp, sent>>
    /\ UNCHANGED <<goos, fs, branch, config, commit, url, run, zi, zsrc, child, outcome, exit>>

\* downloadFile: the status check, then os.Create("launcher.zip")
DownloadFileCreate(p) ==
    /\ At(p, "downloadAnswer")
    /\ IF resp[p].kind # "ok"
       THEN /\ ReturnErr(p, "err_fetch")
            /\ UNCHANGED <<resp, fs>>
       ELSE \/ /\ OpenTruncOk(fs, ZipPath(commit[p]))
               /\ fs' = OpenTrunc(fs, ZipPath(commit[p]), 420, resp[p].body, p)
               /\ Stay(p, "downloadCopy")
               /\ resp' = [resp EXCEPT ![p] = NoResp]
            \/ /\ ReturnErr(p, "err_fetch")
               /\ UNCHANGED <<resp, fs>>
    /\ UNCHANGED <<goos, branch, config, commit, url, run, zi, zsrc, child, outcome, exit, sent>>

\* the file is still the one p opened: nobody truncated it since
StillMine(f, path, p) == IsFileAt(f, path) /\ f[path].by = p

\* downloadFile: io.Copy(out, resp.Body)
DownloadFileCopy(p) ==
    /\ At(p, "downloadCopy")
    /\ \/ \* the body is written to its end
          /\ \E ok \in {StillMine(fs, ZipPath(commit[p]), p), TRUE} :
               fs' = WriteDone(fs, ZipPath(commit[p]), ok)
          /\ Stay(p, "unzip")
       \/ \* the copy fails part-way
          /\ ReturnErr(p, "err_fetch")
          /\ fs' = fs
    /\ UNCHANGED <<goos, branch, config, commit, url, run, resp, zi, zsrc, child, outcome, exit, sent>>

\* unzip: zip.OpenReader reads the directory of a completely written archive
OpenReaderOk(f, path) == IsFileAt(f, path) /\ f[path].done

\* after the last entry the binary is run at once, Verify left out
AfterEntryRuns(a, i) == IF i > Len(Archives[a]) THEN "run" ELSE "unzipEntry"

\* the position after entry i - 1 of archive a: the next entry, or the return
AfterEntry(a, i) == IF i > Len(Archives[a]) THEN "verify" ELSE "unzipEntry"

\* unzip returns nil after the last entry: the fetch is done
Unzipped(p, l) == IF l = "verify" THEN Goto(p, l, "fetched") ELSE Stay(p, l)

\* unzip: zip.OpenReader("launcher.zip")
UnzipOpen(p) ==
    /\ At(p, "unzip")
    /\ \/ /\ OpenReaderOk(fs, ZipPath(commit[p]))
          /\ zsrc' = [zsrc EXCEPT ![p] = fs[ZipPath(commit[p])].src]
          /\ zi' = [zi EXCEPT ![p] = 1]
          /\ Unzipped(p, AfterEntry(fs[ZipPath(commit[p])].src, 1))
       \/ /\ ReturnErr(p, "err_fetch")
          /\ UNCHANGED <<zi, zsrc>>
    /\ UNCHANGED <<goos, fs, branch, config, commit, url, run, resp, child, outcome, exit, sent>>

\* unzip: fpath := f.Name, relative to the commit directory chdir'ed into
Fpath(p) == Join(CommitDir(commit[p]), Archives[zsrc[p]][zi[p]].name)

\* unzip, a directory entry: the error of os.MkdirAll is dropped
UnzipDirEntry(f, path) ==
    IF MkdirAllOk(f, path) THEN {MkdirAll(f, path, ModePerm), f} ELSE {f}

\* unzip, one entry: a directory is made; for a file its directory is made
\* and the file is opened
UnzipEntry(p) ==
    /\ At(p, "unzipEntry")
    /\ LET e == Archives[zsrc[p]][zi[p]] IN
       IF e.isDir
       THEN /\ \E g \in UnzipDirEntry(fs, Fpath(p)) :
                 /\ fs' = g
                 /\ IF IsDirAt(g, Fpath(p))
                    THEN Unzipped(p, AfterEntry(zsrc[p], zi[p] + 1))
                    ELSE Goto(p, AfterEntry(zsrc[p], zi[p] + 1), "mkdir_error_dropped")
            /\ zi' = [zi EXCEPT ![p] = @ + 1]
       ELSE \/ /\ MkdirAllOk(fs, Dir(Fpath(p)))
               /\ OpenTruncOk(MkdirAll(fs, Dir(Fpath(p)), ModePerm), Fpath(p))
               /\ fs' = OpenTrunc(MkdirAll(fs, Dir(Fpath(p)), ModePerm),
                                  Fpath(p), e.mode, zsrc[p], p)
               /\ Stay(p, "unzipCopy")
               /\ zi' = zi
            \/ \* os.MkdirAll fails
               /\ ReturnErr(p, "err_fetch")
               /\ UNCHANGED <<fs, zi>>
            \/ \* os.OpenFile fails
               /\ MkdirAllOk(fs, Dir(Fpath(p)))
               /\ fs' = MkdirAll(fs, Dir(Fpath(p)), ModePerm)
               /\ ReturnErr(p, "err_fetch")
               /\ zi' = zi
    /\ UNCHANGED <<goos, branch, config, commit, url, run, resp, zsrc, child, outcome, exit, sent>>

\* unzip, a file entry: f.Open, io.Copy and the two Close calls
UnzipCopy(p) ==
    /\ At(p, "unzipCopy")
    /\ \/ /\ \E ok \in {StillMine(fs, Fpath(p), p), TRUE} :
               fs' = WriteDone(fs, Fpath(p), ok)
          /\ zi' = [zi EXCEPT ![p] = @ + 1]
          /\ Unzipped(p, AfterEntry(zsrc[p], zi[p] + 1))
       \/ \* f.Open or io.Copy fails: the file stays as far as it was written
          /\ ReturnErr(p, "err_fetch")
          /\ UNCHANGED <<fs, zi>>
    /\ UNCHANGED <<goos, branch, config, commit, url, run, resp, zsrc, child, outcome, exit, sent>>

\* Start: the execute bit is looked at on linux and darwin
ChecksExecutable(os) == os = "linux" \/ os = "darwin"

\* Start: utils.IsExecutable(launcher) and os.Chmod(launcher, 0755)
Verify(p) ==
    /\ At(p, "verify")
    /\ LET launcher == LauncherPath(goos, commit[p]) IN
       IF ChecksExecutable(goos)
       THEN \E st \in StatResults(fs, launcher) :
              IF st # "ok"
              THEN ReturnErr(p, "err_verify") /\ fs' = fs
              ELSE IF IsExecutable(fs, launcher)
              THEN Goto(p, "run", "verified") /\ fs' = fs
              ELSE \/ /\ fs' = Chmod(fs, launcher, Mode0755)
                      /\ Goto(p, "run", "verified")
                   \/ /\ ReturnErr(p, "err_verify")
                      /\ fs' = fs
       ELSE Goto(p, "run", "verified") /\ fs' = fs
    /\ UNCHANGED <<goos, branch, config, commit, url, run, resp, zi, zsrc, child, outcome, exit, sent>>

\* exec can start the file: it is a file, with the execute bit where the
\* platform has one
CanStart(f, path, os) ==
    IsFileAt(f, path) /\ (os = "windows" \/ IsExecutable(f, path))

\* Run: cmd.Run starts the launcher with the arguments and streams of the parent
Run(p) ==
    /\ At(p, "run")
    /\ \/ /\ CanStart(fs, LauncherPath(goos, commit[p]), goos)
          /\ Goto(p, "running", "exec")
       \/ \* cmd.Run fails to start the binary
          ReturnErr(p, "err_exec")
    /\ UNCHANGED <<goos, fs, branch, config, commit, url, run, resp, zi, zsrc, child, outcome, exit, sent>>

\* the exit statuses of the binary
ChildStatuses == {0, 3}

\* a cmd.Run whose error is dropped
RunResultDropped(status) == None

\* cmd.Run returns an *ExitError for a status other than 0
RunResult(status) == IF status = 0 THEN None ELSE "ExitError"

\* Run: cmd.Run waits for the binary; Start returns what it returns
Wait(p) ==
    /\ At(p, "running")
    /\ \E status \in ChildStatuses :
         /\ child' = [child EXCEPT ![p] = status]
         /\ IF RunResult(status) = None
            THEN Stay(p, "returnedNil")
            ELSE ReturnErr(p, "err_child")
    /\ UNCHANGED <<goos, fs, branch, config, commit, url, run, resp, zi, zsrc, outcome, exit, sent>>

\* main: the exit status for what Start did
ExitStatus(l) ==
    CASE l = "returnedNil" -> 0
      [] l = "returnedErr" -> 1
      [] l = "panicked" -> 2

\* an element of the trace
Did(tr, ev) == \E i \in 1..Len(tr) : tr[i] = ev

\* how a run ended: it handed off to the binary ("materialized"), its fetch
\* failed or was cut short ("fetch_failed"), or it failed elsewhere
Outcome(tr) ==
    IF Did(tr, "verified") THEN "materialized"
    ELSE IF Did(tr, "err_fetch") \/ Did(tr, "killed") THEN "fetch_failed"
    ELSE "failed"

\* the memory of the process is gone; what it resolved to, how it ended,
\* the exit status of the binary and its own stay on record
Gone(p) ==
    /\ branch' = [branch EXCEPT ![p] = None]
    /\ config' = [config EXCEPT ![p] = NoConfig]
    /\ url' = [url EXCEPT ![p] = NoUrl]
    /\ run' = [run EXCEPT ![p] = NoRun]
    /\ resp' = [resp EXCEPT ![p] = NoResp]
    /\ zi' = [zi EXCEPT ![p] = 0]
    /\ zsrc' = [zsrc EXCEPT ![p] = 0]
    /\ trace' = [trace EXCEPT ![p] = <<>>]
    /\ sent' = [sent EXCEPT ![p] = NoRequest]

\* main: os.Exit(1) when Start returned an error, else the return from main
Main(p) ==
    /\ Turn(p)
    /\ pc[p] \in {"returnedNil", "returnedErr", "panicked"}
    /\ exit' = [exit EXCEPT ![p] = ExitStatus(pc[p])]
    /\ outcome' = [outcome EXCEPT ![p] = Outcome(trace[p])]
    /\ pc' = [pc EXCEPT ![p] = "exited"]
    /\ Gone(p)
    /\ UNCHANGED <<goos, fs, commit, child>>

\* where a kill leaves the cache other than a return does: between the
\* creation of the commit directory and the end of unzip
InFetch(l) ==
    l \in {"downloadLauncher", "downloadAnswer", "downloadCopy", "unzip",
           "unzipEntry", "unzipCopy"}

\* the process is killed, or the machine stops, in the middle of the fetch
Crash(p) ==
    /\ Turn(p)
    /\ InFetch(pc[p])
    /\ outcome' = [outcome EXCEPT ![p] = Outcome(Append(trace[p], "killed"))]
    /\ pc' = [pc EXCEPT ![p] = "crashed"]
    /\ Gone(p)
    /\ UNCHANGED <<goos, fs, commit, child, exit>>

Next ==
    \E p \in Procs :
        \/ EnsureDirs(p)
        \/ ParseConfig(p)
        \/ GetHeadCommitReq(p)
        \/ GetHeadCommitResp(p)
        \/ CheckCache(p)
        \/ GetDownloadUrl(p)
        \/ GetLastRunOfBranch(p)
        \/ GetWorkflowDownloadUrlReq(p)
        \/ GetWorkflowDownloadUrlResp(p)
        \/ EnsureCommitDirStat(p)
        \/ EnsureCommitDirMkdir(p)
        \/ DownloadFileReq(p)
        \/ DownloadFileCreate(p)
        \/ DownloadFileCopy(p)
        \/ UnzipOpen(p)
        \/ UnzipEntry(p)
        \/ UnzipCopy(p)
        \/ Verify(p)
        \/ Run(p)
        \/ Wait(p)
        \/ Main(p)
        \/ Crash(p)

Spec == Init /\ [][Next]_vars

---------------------------------------------------------------------------
(* Two invocations at once *)

\* two launchers started together on a linux machine with an empty cache
\* have both resolved the branch master to the same commit
InitConcurrent ==
    /\ goos = "linux"
    /\ fs = <<>>
    /\ pc = [p \in Procs |-> "checkCache"]
    /\ branch = [p \in Procs |-> "master"]
    /\ config = [p \in Procs |-> [AccessToken |-> "tok"]]
    /\ commit = [p \in Procs |-> "c1"]
    /\ url = [p \in Procs |-> NoUrl]
    /\ run = [p \in Procs |-> NoRun]
    /\ resp = [p \in Procs |-> NoResp]
    /\ zi = [p \in Procs |-> 0]
    /\ zsrc = [p \in Procs |-> 0]
    /\ child = [p \in Procs |-> NoExit]
    /\ trace = [p \in Procs |-> <<"req_commit">>]
    /\ outcome = [p \in Procs |-> None]
    /\ exit = [p \in Procs |-> NoExit]
    /\ sent = [p \in Procs |-> DoGetHeader]

\* the steps of Start from the cache check on, interleaved
NextConcurrent ==
    \E p \in Procs :
        \/ CheckCache(p)
        \/ GetDownloadUrl(p)
        \/ GetLastRunOfBranch(p)
        \/ GetWorkflowDownloadUrlReq(p)
        \/ GetWorkflowDownloadUrlResp(p)
        \/ EnsureCommitDirStat(p)
        \/ EnsureCommitDirMkdir(p)
        \/ DownloadFileReq(p)
        \/ DownloadFileCreate(p)
        \/ DownloadFileCopy(p)
        \/ UnzipOpen(p)
        \/ UnzipEntry(p)
        \/ UnzipCopy(p)
        \/ Verify(p)
        \/ Run(p)
        \/ Wait(p)
        \/ Main(p)
        \/ Crash(p)

SpecConcurrent == InitConcurrent /\ [][NextConcurrent]_vars

---------------------------------------------------------------------------
(* Properties *)

Last(tr) == IF tr = <<>> THEN None ELSE tr[Len(tr)]

Count(tr, ev) == Cardinality({i \in 1..Len(tr) : tr[i] = ev})

\* the run of p has sent no locate or download request
NoFetchBy(p) ==
    /\ ~Did(trace[p], "miss")
    /\ ~Did(trace[p], "req_runs")
    /\ ~Did(trace[p], "req_artifacts")
    /\ ~Did(trace[p], "req_download")

\* the second run resolves to the version the first run handed off
SecondAfterMaterialized ==
    /\ outcome["p1"] = "materialized"
    /\ commit["p2"] \in Commits
    /\ commit["p2"] = commit["p1"]

\* C1, as stated: once a first run has reached the hand-off for version v
\* without an error, a second run that resolves to v takes the cache-hit
\* path: it misses nothing and sends no run-listing, artifact-listing or
\* download request.
C1_SecondRunIsCacheHit == SecondAfterMaterialized => NoFetchBy("p2")

\* the first run left the binary of the version at its path
FirstRunLeftBinary ==
    /\ IsFileAt(fs, LauncherPath(goos, commit["p1"]))
    /\ fs[LauncherPath(goos, commit["p1"])].by = "p1"

\* C1, amended: the same on linux and darwin, where the hand-off is reached
\* only with the binary in place; on windows, where nothing looks at the
\* binary before the hand-off, only when the first run left the binary.
C1_SecondRunIsCacheHitWhereVerified ==
    (SecondAfterMaterialized /\ (goos \in {"linux", "darwin"} \/ FirstRunLeftBinary))
        => NoFetchBy("p2")

C1_Witness ==
    /\ SecondAfterMaterialized
    /\ goos = "linux"
    /\ Did(trace["p2"], "hit")
    /\ pc["p2"] = "running"

\* the release-tag pattern: two digits, dot, two digits, dot, two digits,
\* any suffix
IsReleaseTag(b) ==
    LET s == BranchChars[b]
    IN  /\ Len(s) >= 8
        /\ \A i \in {1, 2, 4, 5, 7, 8} : s[i] \in Digits
        /\ s[3] = "." /\ s[6] = "."

\* the run of p has resolved its branch
Resolved(p) == branch[p] \in Branches /\ commit[p] # None

\* C2, as stated: a branch that matches the release-tag pattern is itself
\* the version identifier and costs no request; any other branch costs one
\* commit lookup, whose sha is the identifier.
C2_TagIsItsOwnIdentifier ==
    \A p \in Procs :
        Resolved(p) =>
            IF IsReleaseTag(branch[p])
            THEN commit[p] = branch[p] /\ Count(trace[p], "req_commit") = 0
            ELSE commit[p] \in Commits /\ Count(trace[p], "req_commit") = 1

\* C2, amended: every branch, tag or not, costs exactly one commit lookup
\* and the sha answered is the identifier; the tag pattern decides only how
\* the download is located: a tag sends no run-listing and no
\* artifact-listing request, any other branch sends both before a download.
C2_OneLookupForEveryBranch ==
    \A p \in Procs :
        Resolved(p) =>
            /\ Count(trace[p], "req_commit") = 1
            /\ commit[p] \in Commits
            /\ IsReleaseTag(branch[p]) =>
                    ~Did(trace[p], "req_runs") /\ ~Did(trace[p], "req_artifacts")
            /\ (~IsReleaseTag(branch[p]) /\ Did(trace[p], "req_download")) =>
                    Did(trace[p], "req_runs") /\ Did(trace[p], "req_artifacts")

C2_Witness ==
    \E p \in Procs :
        /\ Resolved(p)
        /\ IsReleaseTag(branch[p])
        /\ Did(trace[p], "req_download")

\* every entry of archive a is extracted under the directory of commit c
ExtractedAll(c, a) ==
    \A i \in 1..Len(Archives[a]) :
        LET q == Join(CommitDir(c), Archives[a][i].name)
        IN  IF Archives[a][i].isDir THEN IsDirAt(fs, q)
            ELSE IsFileAt(fs, q) /\ fs[q].done

\* C3: in every state, a binary that the cache-hit check finds is completely
\* written, and the whole archive it came from is extracted.
C3_CacheEntryIsComplete ==
    \A c \in Commits :
        LET launcher == LauncherPath(goos, c)
        IN  Present(fs, launcher) =>
                /\ IsFileAt(fs, launcher)
                /\ fs[launcher].done
                /\ ExtractedAll(c, fs[launcher].src)

\* C4: when the artifact list arrives, the Locator returns the url of an
\* artifact named by the platform key, and fails if there is none.
C4_LocatorSelectsOrFails ==
    [][\A p \in Procs :
         (pc[p] = "workflowUrlAnswer" /\ pc'[p] # pc[p] /\ resp[p].kind = "ok") =>
            LET arts == resp[p].body
                m == {i \in 1..Len(arts) : arts[i].Name = ArtifactName(goos)}
            IN  IF m = {} THEN pc'[p] = "returnedErr"
                ELSE /\ pc'[p] = "ensureCommitDir"
                     /\ \E i \in m : url'[p] = arts[i].ArchiveDownloadUrl]_vars

\* the run list p was answered with is empty, or its first (latest) run is
\* of another commit than the one resolved
NoBuildForCommit(p) ==
    /\ resp[p].kind \in {"ok", "badjson"}
    /\ resp[p].kind = "ok" /\ Len(resp[p].body) > 0 =>
            resp[p].body[1].HeadSha # commit[p]

\* C5: on the branch path the Locator goes on to the artifacts only with a
\* latest run of the resolved commit; otherwise it fails with the not-found
\* error, and the run then lists no artifacts, makes no cache directory and
\* downloads nothing.
C5_CommitMismatchGuard ==
    \A p \in Procs :
        /\ pc[p] = "workflowUrl" =>
                /\ ~NoBuildForCommit(p)
                /\ run[p] = resp[p].body[1]
        /\ Did(trace[p], "err_runs") => ~NoBuildForCommit(p)
        /\ Did(trace[p], "err_no_build") =>
                /\ NoBuildForCommit(p)
                /\ pc[p] = "returnedErr"
                /\ ~Did(trace[p], "req_artifacts")
                /\ ~Did(trace[p], "mkdir")
                /\ ~Did(trace[p], "req_download")

C5_Witness ==
    \E p \in Procs :
        /\ pc[p] = "returnedErr"
        /\ Last(trace[p]) = "err_no_build"
        /\ resp[p].kind = "ok"
        /\ Len(resp[p].body) > 0
        /\ resp[p].body[1].HeadSha # commit[p]

\* the failures of the stages of a materialization attempt
StageFailures ==
    {"err_dirs", "err_config", "err_resolve", "err_stat", "err_runs",
     "err_no_build", "artifacts_failed", "err_artifacts", "err_commitdir",
     "err_chdir", "err_fetch", "err_verify"}

\* C6: a failure at a stage is the last thing the run does: Start returns an
\* error and no later stage is executed.
C6_FailureAbortsTheRun ==
    \A p \in Procs :
        \A i \in 1..Len(trace[p]) :
            trace[p][i] \in StageFailures =>
                i = Len(trace[p]) /\ pc[p] = "returnedErr"

\* the hand-off of Start: the binary is about to be run, or runs
AtHandOff(p) == pc[p] \in {"run", "running"}

\* C7: off windows, at the hand-off the binary has the user execute bit.
C7_ExecutableAtHandOff ==
    \A p \in Procs :
        (goos # "windows" /\ AtHandOff(p)) =>
            LET launcher == LauncherPath(goos, commit[p])
            IN  /\ launcher \in DOMAIN fs
                /\ (fs[launcher].mode \div 64) % 2 = 1

\* a cache hit on a binary that the archive recorded without the bit
C7_Witness ==
    \E p \in Procs :
        /\ goos = "linux"
        /\ pc[p] = "run"
        /\ Did(trace[p], "hit")
        /\ IsFileAt(fs, LauncherPath(goos, commit[p]))
        /\ fs[LauncherPath(goos, commit[p])].src = 2

\* C8: without a config file Start goes on with an empty token; it does not
\* crash before the resolver is made.
C8_NoConfigFileIsNoCrash ==
    \A p \in Procs : ~Did(trace[p], "panic_config")

\* C9, as stated: the launcher exits with status 1 on its own errors only,
\* not because the binary it ran exited with a status other than 0.
C9_ExitOneOnlyForLauncherErrors ==
    \A p \in Procs : child[p] \notin {NoExit, 0} => exit[p] # 1

\* C9, amended: the launcher exits with status 1 whenever Start returns an
\* error, and Start returns the error of cmd.Run too: it exits 1 when the
\* binary exited with any status other than 0 (the status itself is not
\* passed on), 0 only when the binary exited 0, and never 0 when the run
\* failed before the hand-off.
C9_ExitOneAlsoForTheBinary ==
    \A p \in Procs :
        pc[p] = "exited" =>
            /\ child[p] \notin {NoExit, 0} => exit[p] = 1
            /\ exit[p] = 0 <=> child[p] = 0
            /\ outcome[p] # "materialized" => exit[p] \in {1, 2}

C9_Witness ==
    \E p \in Procs : pc[p] = "exited" /\ child[p] = 3 /\ exit[p] = 1

\* C10: after a run whose fetch failed for version v, a later run that
\* resolves to v does not find the binary in the cache.
C10_FailedFetchLeavesNoHit ==
    (/\ outcome["p1"] = "fetch_failed"
     /\ commit["p2"] \in Commits
     /\ commit["p2"] = commit["p1"])
        => ~Did(trace["p2"], "hit")

\* both runs found the binary missing and are extracting an archive into the
\* directory of the same commit
BothExtract ==
    /\ commit["p1"] = commit["p2"]
    /\ \A p \in Procs :
          /\ pc[p] \in {"unzipEntry", "unzipCopy"}
          /\ Did(trace[p], "miss")
          /\ Did(trace[p], "req_download")
          /\ zsrc[p] \in ArchiveIds

\* the run of p can take the step from the cache check to the fetch
CanMiss(p) == ENABLED (CheckCache(p) /\ pc'[p] = "getDownloadUrl")

\* the run of p can send its download request
CanDownload(p) == ENABLED (DownloadFileReq(p) /\ pc'[p] = "downloadAnswer")

\* C11: nothing excludes two runs from fetching the same version at once: a
\* run at the cache check goes on to the fetch whenever the binary is not
\* there, and a run with the commit directory in place sends its download,
\* whatever the other run is doing in that directory; so both can find the
\* binary missing and both download and extract into cacheRoot/v.
C11_NothingExcludesASecondFetch ==
    \A p \in Procs :
        /\ (pc[p] = "checkCache" /\ <<commit[p], "launcher">> \notin DOMAIN fs)
                => CanMiss(p)
        /\ (pc[p] = "downloadLauncher" /\ IsDirAt(fs, <<commit[p]>>))
                => CanDownload(p)

C11_Witness == BothExtract

\* the run of p can get its commit directory from os.Mkdir
CanMkdir(p) == ENABLED (EnsureCommitDirMkdir(p) /\ pc'[p] = "downloadLauncher")

\* C12: ensureCommitDir does not fail because the directory of the commit
\* exists: when another run has made the directory between the existence
\* check and os.Mkdir, the run still gets the directory and goes on.
C12_EnsureCommitDirIsIdempotent ==
    \A p \in Procs :
        (pc[p] = "mkdirCommitDir" /\ IsDirAt(fs, <<commit[p]>>)) => CanMkdir(p)

\* a step leaves everything under cacheRoot/c as it is, but for file modes
OnlyModesChange(c) ==
    \A q \in DOMAIN fs \cup DOMAIN fs' :
        (Len(q) >= 1 /\ q[1] = c) =>
            /\ q \in DOMAIN fs /\ q \in DOMAIN fs'
            /\ [fs'[q] EXCEPT !.mode = fs[q].mode] = fs[q]

\* no run under way has made a commit directory: what is there was made by
\* a run that has ended
MadeByEarlierRun(c) ==
    /\ IsDirAt(fs, <<c>>)
    /\ \A p \in Procs : ~Did(trace[p], "mkdir")

\* C13, as stated: once cacheRoot/v has been made, no later run writes,
\* truncates, replaces or deletes anything in it; only modes change.
C13_CacheDirIsNeverMutated ==
    [][\A c \in Commits : MadeByEarlierRun(c) => OnlyModesChange(c)]_vars

\* the first run has ended and the binary of c is the one it left
BinaryLeftByFirstRun(c) ==
    LET launcher == <<c, IF goos = "windows" THEN "launcher.exe" ELSE "launcher">>
    IN  /\ Ended("p1")
        /\ launcher \in DOMAIN fs
        /\ fs[launcher].kind = "file"
        /\ fs[launcher].by = "p1"

\* C13, amended: once a run has left the binary in cacheRoot/v, a later run
\* changes nothing in cacheRoot/v but file modes (a directory without the
\* binary is filled again by the next run for v).
C13_CacheDirWithBinaryIsNeverMutated ==
    [][\A c \in Commits : BinaryLeftByFirstRun(c) => OnlyModesChange(c)]_vars

\* the second run hit the binary the first left without the execute bit,
\* and has set the bit
C13_Witness ==
    /\ BinaryLeftByFirstRun(commit["p2"])
    /\ commit["p2"] = commit["p1"]
    /\ Did(trace["p2"], "hit")
    /\ Did(trace["p2"], "verified")
    /\ fs[LauncherPath(goos, commit["p2"])].src = 2
    /\ fs[LauncherPath(goos, commit["p2"])].mode = Mode0755

\* C14: a failure on an archive entry, a directory entry too, ends unzip
\* with an error: nothing is extracted after it and no success is reported.
C14_EntryFailureAbortsUnzip ==
    \A p \in Procs :
        Did(trace[p], "mkdir_error_dropped") =>
            /\ pc[p] = "returnedErr"
            /\ Last(trace[p]) = "mkdir_error_dropped"

\* ev happened, and a happened before it
After(tr, a, ev) ==
    \E j \in 1..Len(tr) : tr[j] = ev /\ \E i \in 1..(j - 1) : tr[i] = a

\* what marks the stages of a run: the commit lookup, the cache check, the
\* two listings of the Locator, the download, the return of unzip, Verify
\* and the start of the binary
StageEvents ==
    {"req_commit", "hit", "miss", "req_runs", "req_artifacts", "req_download",
     "fetched", "verified", "exec"}

\* C15: the stages of a run happen in the order resolve, locate and fetch
\* (on a miss only), verify, execute, each at most once, and the binary is
\* started only when every stage before it has returned without an error.
C15_StagesInOrder ==
    \A p \in Procs :
        LET tr == trace[p]
            checked == Did(tr, "hit") \/ Did(tr, "miss")
        IN  /\ \A ev \in StageEvents : Count(tr, ev) <= 1
            /\ ~(Did(tr, "hit") /\ Did(tr, "miss"))
            /\ checked => After(tr, "req_commit", "hit") \/ After(tr, "req_commit", "miss")
            /\ Did(tr, "hit") =>
                    \A ev \in {"req_runs", "req_artifacts", "mkdir", "req_download", "fetched"} :
                        ~Did(tr, ev)
            /\ Did(tr, "req_runs") => After(tr, "miss", "req_runs")
            /\ Did(tr, "req_artifacts") => After(tr, "req_runs", "req_artifacts")
            /\ Did(tr, "req_download") =>
                    /\ After(tr, "miss", "req_download")
                    /\ Did(tr, "req_runs") => After(tr, "req_artifacts", "req_download")
            /\ Did(tr, "fetched") => After(tr, "req_download", "fetched")
            /\ Did(tr, "verified") =>
                    After(tr, "hit", "verified") \/ After(tr, "fetched", "verified")
            /\ Did(tr, "exec") =>
                    /\ After(tr, "verified", "exec")
                    /\ \A ev \in StageFailures : ~Did(tr, ev)
            /\ pc[p] = "running" => Last(tr) = "exec"

\* a run that missed, located through runs and artifacts, fetched, verified
\* and started the binary
C15_Witness ==
    \E p \in Procs :
        /\ pc[p] = "running"
        /\ trace[p] = <<"req_commit", "miss", "req_runs", "req_artifacts", "mkdir",
                        "req_download", "fetched", "verified", "exec">>

\* C16, as stated: whatever the order of the list, the run the Locator goes
\* on with has the latest created_at of the runs listed.
C16_SelectsLatestCreated ==
    \A p \in Procs :
        pc[p] = "workflowUrl" =>
            \A i \in 1..Len(resp[p].body) :
                resp[p].body[i].CreatedAt <= run[p].CreatedAt

\* C16, amended: the Locator goes on with the run listed first, whatever
\* its created_at, and with that run alone: the head_sha it compared and the
\* id it lists the artifacts of are those of the first run of the list.
C16_SelectsFirstListed ==
    \A p \in Procs :
        /\ pc[p] = "workflowUrl" =>
                /\ run[p].Id = resp[p].body[1].Id
                /\ run[p].CreatedAt = resp[p].body[1].CreatedAt
                /\ run[p].HeadSha = resp[p].body[1].HeadSha
        /\ pc[p] \in {"workflowUrl", "workflowUrlAnswer"} =>
                /\ run[p] \in WorkflowRuns
                /\ run[p].HeadSha = commit[p]

\* the first run listed is not the latest one, and it is the one selected
C16_Witness ==
    \E p \in Procs :
        /\ pc[p] = "workflowUrl"
        /\ Len(resp[p].body) = 2
        /\ resp[p].body[1].CreatedAt < resp[p].body[2].CreatedAt
        /\ run[p] = resp[p].body[1]

\* the run of p has a token configured and has sent a request
SentWithToken(p) ==
    /\ config[p] # NoConfig
    /\ config[p].AccessToken \in Tokens
    /\ sent[p] # NoRequest

\* C17: with an access token configured, every request sent carries it: the
\* commit lookup, the two listings and the download.
C17_EveryRequestCarriesTheToken ==
    \A p \in Procs :
        SentWithToken(p) =>
            sent[p].Authorization = "token " \o config[p].AccessToken

\* C18: whatever the archive, extraction writes only inside the directory
\* of the version: every file and directory in the cache lies under
\* cacheRoot/<commit>.
C18_ExtractionStaysInside ==
    \A q \in DOMAIN fs : Len(q) >= 1 /\ q[1] \in Commits

=============================================================================
